---- MODULE Spec2Model ----
(***************************************************************************)
(* Tenant isolation on test_tenant_table as set up by the db_engine        *)
(* fixture (src/conftest.py) and exercised through sessions obtained from  *)
(* db_session_factory.  The model covers the row-security catalog state,   *)
(* the database role of the pooled connections, the transaction-local      *)
(* setting app.current_tenant, and the statements the tests issue          *)
(* (SELECT / INSERT / UPDATE / DELETE / COMMIT / ROLLBACK), followed by    *)
(* the connection pool and statement_timeout, the seeding functions        *)
(* (src/seeding/seed.py) and the collection hook of conftest.py.           *)
(***************************************************************************)
EXTENDS Integers, FiniteSets, Sequences, TLC

(* ------------------------------ bounds --------------------------------- *)
NumSessions == 1      \* concurrent units of work (async with db_session_factory())
NumConns    == 1      \* connections held by the engine's pool
NumIds      == 1      \* distinct primary keys used by the statements
MaxStmts    == 3      \* statements issued in a run, over all units of work
NumSeeders  == 2      \* callers of seed_all running at the same time
MaxRuns     == 2      \* seed_all invocations in a run, over all callers

Sessions == 1..NumSessions
Conns    == 1..NumConns
Ids      == 1..NumIds
Seeders  == 1..NumSeeders

(* ------------------------ fixture constants ---------------------------- *)
tenant_alpha_id == "00000000-0000-0000-0000-000000000001"
tenant_beta_id  == "00000000-0000-0000-0000-000000000002"

Tenants == {tenant_alpha_id, tenant_beta_id}

\* values a caller may pass as a tenant identifier: the known tenants, the
\* empty string and an identifier no tenant has
ContextStrings == Tenants \cup {"", "migration-smoke-test-tenant"}

\* values of the tenant_id column (TEXT NOT NULL: the empty string is legal)
RowTenants == Tenants \cup {""}

\* values of the name column: what the tests insert and what they update to
InsertNames == {"original-name"}
UpdateNames == {"updated-name"}
Names == InsertNames \cup UpdateNames

\* SQL NULL, as returned by current_setting(name, missing_ok = TRUE) for a
\* setting the connection never defined
NULL == "<NULL>"

NoRow     == [tenant_id |-> NULL, name |-> NULL]     \* no row under this key
Untouched == [tenant_id |-> NULL, name |-> "<untouched>"]

(* ------------------- seed fixtures (src/seeding/fixtures.py) ------------ *)
tenant_gamma_id == "00000000-0000-0000-0000-000000000003"

ALL_TENANT_IDS == <<tenant_alpha_id, tenant_beta_id, tenant_gamma_id>>

SEED_TENANTS == <<
    [id |-> tenant_alpha_id, name |-> "Integration Test Tenant Alpha",
     slug |-> "test-tenant-alpha"],
    [id |-> tenant_beta_id, name |-> "Integration Test Tenant Beta",
     slug |-> "test-tenant-beta"],
    [id |-> tenant_gamma_id, name |-> "Integration Test Tenant Gamma",
     slug |-> "test-tenant-gamma"] >>

SEED_USERS == <<
    [id |-> "00000000-0001-0000-0000-000000000001", tenant_id |-> tenant_alpha_id,
     username |-> "alpha-read", privilege_level |-> 1, email |-> "read@alpha.test"],
    [id |-> "00000000-0001-0000-0000-000000000002", tenant_id |-> tenant_alpha_id,
     username |-> "alpha-write", privilege_level |-> 2, email |-> "write@alpha.test"],
    [id |-> "00000000-0001-0000-0000-000000000003", tenant_id |-> tenant_alpha_id,
     username |-> "alpha-op", privilege_level |-> 3, email |-> "op@alpha.test"],
    [id |-> "00000000-0001-0000-0000-000000000004", tenant_id |-> tenant_alpha_id,
     username |-> "alpha-admin", privilege_level |-> 4, email |-> "admin@alpha.test"],
    [id |-> "00000000-0001-0000-0000-000000000005", tenant_id |-> tenant_alpha_id,
     username |-> "alpha-super", privilege_level |-> 5, email |-> "super@alpha.test"],
    [id |-> "00000000-0002-0000-0000-000000000001", tenant_id |-> tenant_beta_id,
     username |-> "beta-read", privilege_level |-> 1, email |-> "read@beta.test"],
    [id |-> "00000000-0002-0000-0000-000000000002", tenant_id |-> tenant_beta_id,
     username |-> "beta-write", privilege_level |-> 2, email |-> "write@beta.test"],
    [id |-> "00000000-0002-0000-0000-000000000003", tenant_id |-> tenant_beta_id,
     username |-> "beta-op", privilege_level |-> 3, email |-> "op@beta.test"],
    [id |-> "00000000-0002-0000-0000-000000000004", tenant_id |-> tenant_beta_id,
     username |-> "beta-admin", privilege_level |-> 4, email |-> "admin@beta.test"],
    [id |-> "00000000-0002-0000-0000-000000000005", tenant_id |-> tenant_beta_id,
     username |-> "beta-super", privilege_level |-> 5, email |-> "super@beta.test"],
    [id |-> "00000000-0003-0000-0000-000000000001", tenant_id |-> tenant_gamma_id,
     username |-> "gamma-read", privilege_level |-> 1, email |-> "read@gamma.test"],
    [id |-> "00000000-0003-0000-0000-000000000002", tenant_id |-> tenant_gamma_id,
     username |-> "gamma-write", privilege_level |-> 2, email |-> "write@gamma.test"],
    [id |-> "00000000-0003-0000-0000-000000000003", tenant_id |-> tenant_gamma_id,
     username |-> "gamma-op", privilege_level |-> 3, email |-> "op@gamma.test"],
    [id |-> "00000000-0003-0000-0000-000000000004", tenant_id |-> tenant_gamma_id,
     username |-> "gamma-admin", privilege_level |-> 4, email |-> "admin@gamma.test"],
    [id |-> "00000000-0003-0000-0000-000000000005", tenant_id |-> tenant_gamma_id,
     username |-> "gamma-super", privilege_level |-> 5, email |-> "super@gamma.test"] >>

\* names of the topics in SEED_KAFKA_TOPICS
SEED_KAFKA_TOPICS ==
    {"aumos.audit.events", "aumos.governance.events", "aumos.model.lifecycle",
     "aumos.data.pipeline", "aumos.alerts", "aumos.audit.events.dlq",
     "aumos.governance.events.dlq"}

\* bucket_name = f"aumos-{tenant_id}" for tenant_id in ALL_TENANT_IDS
BucketNames ==
    {"aumos-00000000-0000-0000-0000-000000000001",
     "aumos-00000000-0000-0000-0000-000000000002",
     "aumos-00000000-0000-0000-0000-000000000003"}

SeedTenantIds == {SEED_TENANTS[k].id : k \in DOMAIN SEED_TENANTS}
SeedUserIds   == {SEED_USERS[k].id : k \in DOMAIN SEED_USERS}

(* --------------- tables written by the seeding functions ---------------- *)
\* identifiers of rows the seeding functions did not write
foreign_tenant_id == "99999999-0000-0000-0000-000000000001"
foreign_user_id   == "99999999-0001-0000-0000-000000000001"

\* a table is a function from the identifiers of its rows to the other
\* columns; so are the uncommitted writes of a transaction
EmptyTable == <<>>
NoWrites   == <<>>

\* what a failing statement yields in place of a row
NoTenant == [name |-> NULL, slug |-> NULL]
NoUser   == [tenant_id |-> NULL, username |-> NULL, email |-> NULL,
             privilege_level |-> 0]

\* Content the tables may hold before the first seed run.  Both tables are
\* created with IF NOT EXISTS, and the command line targets a database that
\* outlives the run, so rows may be there already: a row under a seed
\* identifier with other column values, or a row under another identifier
\* whose unique column does or does not collide with a fixture value.  Every
\* candidate satisfies the constraints of the table definitions.
TenantsWith(k, row) == k :> row

UsersWith(k, row) == k :> row

PriorTenantRows ==
    {EmptyTable,
     TenantsWith(tenant_alpha_id,
                 [name |-> "Renamed Tenant", slug |-> "renamed-tenant"]),
     TenantsWith(foreign_tenant_id,
                 [name |-> "Other Tenant", slug |-> "other-tenant"]),
     TenantsWith(foreign_tenant_id,
                 [name |-> "Other Tenant", slug |-> "test-tenant-beta"])}

PriorUserRows ==
    {EmptyTable,
     UsersWith(SEED_USERS[1].id,
               [tenant_id |-> tenant_beta_id, username |-> "old-name",
                email |-> "old@alpha.test", privilege_level |-> 3]),
     UsersWith(foreign_user_id,
               [tenant_id |-> tenant_alpha_id, username |-> "other",
                email |-> "read@beta.test", privilege_level |-> 2])}

\* the tables the seeding functions create if they are not there
SeedTables == {"tenants", "test_users"}

\* what the broker / the object store answer during one seeding call
BrokerStates == {"up", "down"}
StoreStates  == {"up", "denied", "unreachable"}

NoResults == <<>>
NoOutcome == [caller |-> 0, raised |-> "no call ended", at |-> "none",
              results |-> NoResults]

(* ------------------------------ state ---------------------------------- *)
VARIABLES
    table,        \* committed content of test_tenant_table: id -> row
    status,       \* per session: "idle" | "active" | "aborted"
    conn,         \* per session: the pooled connection it holds (0 = none)
    pending,      \* per session: uncommitted writes of its transaction
    nstmt,        \* statements issued so far
    guc_local,    \* per connection: transaction-local app.current_tenant
    guc_session,  \* per connection: session-level app.current_tenant
    last          \* outcome of the most recent statement

VARIABLES
    catalog,      \* pg_class / pg_policies entries of test_tenant_table
    lent,         \* pooled connections checked out by other users of the engine
    stmt_timeout, \* per connection: statement_timeout, session value and SET in progress
    elapsed       \* milliseconds the most recent pg_sleep statement ran

VARIABLES
    tenants,      \* committed content of tenants: id -> row
    test_users,   \* committed content of test_users: id -> row
    tenants_tx,   \* per seeder: uncommitted writes of its seed_tenants transaction
    users_tx,     \* per seeder: uncommitted writes of its seed_users transaction
    spc,          \* per seeder: the step of seed_all it is at
    sidx,         \* per seeder: index of the next fixture row to upsert
    results,      \* per seeder: the results dict built so far
    outcome,      \* how the seed_all call that ended most recently ended
    nruns,        \* seed_all calls made so far
    kafka_lib,    \* confluent_kafka can be imported
    boto_lib,     \* boto3 can be imported
    topics,       \* topics that exist on the broker
    buckets,      \* buckets that exist in the object store
    relations,    \* which of the tables tenants and test_users exist (committed)
    creating,     \* per seeder: its open transaction has created its table
    ddl_wait      \* per seeder: its CREATE TABLE waits for another transaction

VARIABLES
    environ,      \* os.environ: the two variables the collection hook reads
    items,        \* the test items pytest collected
    skip_marks    \* per item: the skip markers the collection hook added

dbvars == <<table, status, conn, pending, nstmt, guc_local, guc_session, last,
            catalog, lent, stmt_timeout, elapsed>>

\* what the statements on test_tenant_table leave alone
poolvars == <<catalog, lent, stmt_timeout, elapsed>>

seedvars == <<tenants, test_users, tenants_tx, users_tx, spc, sidx,
              results, outcome, nruns, kafka_lib, boto_lib, topics, buckets,
              relations, creating, ddl_wait>>

vars == <<table, status, conn, pending, nstmt, guc_local, guc_session, last,
          catalog, lent, stmt_timeout, elapsed,
          tenants, test_users, tenants_tx, users_tx, spc, sidx,
          results, outcome, nruns, kafka_lib, boto_lib, topics, buckets,
          relations, creating, ddl_wait,
          environ, items, skip_marks>>

collectvars == <<environ, items, skip_marks>>

NoLocal == "<no-local>"

(* ---------------------- catalog state after db_engine ------------------ *)
\* a set-up that enables row security on the table without forcing it
db_engine_catalog_not_forced ==
    [relrowsecurity |-> TRUE, relforcerowsecurity |-> FALSE,
     pg_policies |-> {[policyname |-> "tenant_isolation", has_using |-> TRUE,
                       has_with_check |-> TRUE]}]

\* What db_engine's transaction leaves in the catalog for test_tenant_table:
\* ALTER TABLE ... ENABLE ROW LEVEL SECURITY, ALTER TABLE ... FORCE ROW LEVEL
\* SECURITY, and CREATE POLICY tenant_isolation ... USING (...) WITH CHECK (...)
db_engine_catalog ==
    [relrowsecurity |-> TRUE, relforcerowsecurity |-> TRUE,
     pg_policies |-> {[policyname |-> "tenant_isolation", has_using |-> TRUE,
                       has_with_check |-> TRUE]}]

\* SELECT relrowsecurity, relforcerowsecurity FROM pg_class
\* WHERE relname = 'test_tenant_table'
relrowsecurity      == catalog.relrowsecurity
relforcerowsecurity == catalog.relforcerowsecurity

\* SELECT policyname, qual IS NOT NULL, with_check IS NOT NULL FROM pg_policies
\* WHERE tablename = 'test_tenant_table'
pg_policies == catalog.pg_policies

\* a dedicated application role without superuser or BYPASSRLS
AppRole_without_bypass ==
    [rolname |-> "app", rolsuper |-> FALSE, rolbypassrls |-> FALSE,
     owns_table |-> TRUE]

\* The role every pooled connection logs in with.  The engine is created
\* from postgres_container.get_connection_url(), and PostgresContainer is
\* constructed with the image name only, so the role is the container's
\* bootstrap user: it owns the tables db_engine creates and is a superuser
\* (the tests' set-up inserts rely on it: "bypass RLS for setup using
\* superuser").  No other role is created or switched to.
AppRole == [rolname |-> "test", rolsuper |-> TRUE, rolbypassrls |-> TRUE,
            owns_table |-> TRUE]

\* Row security is applied to a statement unless the role is a superuser or
\* has BYPASSRLS; FORCE only removes the table owner's exemption.
RowSecurityApplies(role) ==
    /\ relrowsecurity
    /\ ~role.rolsuper
    /\ ~role.rolbypassrls
    /\ (role.owns_table => relforcerowsecurity)

(* ------------------------- tenant context ------------------------------ *)
\* current_setting('app.current_tenant', TRUE) on connection c
current_setting(c) ==
    IF guc_local[c] # NoLocal THEN guc_local[c] ELSE guc_session[c]

\* set_tenant_context with a guard that leaves the setting alone when the
\* identifier is empty
set_tenant_context_skips_empty(c, tenant_id) ==
    IF tenant_id = "" THEN guc_local ELSE [guc_local EXCEPT ![c] = tenant_id]

\* set_tenant_context(tenant_id): PERFORM set_config('app.current_tenant',
\* tenant_id, TRUE) -- the value is stored unchanged, local to the transaction
set_tenant_context(c, tenant_id) ==
    [guc_local EXCEPT ![c] = tenant_id]

\* End of a transaction on connection c: the local value is dropped.  Once a
\* transaction has set the custom setting, the connection keeps it defined
\* with the empty string as its session-level value.
SessionValueAfterTxn(c) ==
    IF guc_local[c] # NoLocal /\ guc_session[c] = NULL THEN "" ELSE guc_session[c]

(* ------------------------- tenant_isolation ---------------------------- *)
\* tenant_id = current_setting('app.current_tenant', TRUE); a comparison with
\* NULL is not true
PolicyExpr(row, c) ==
    /\ current_setting(c) # NULL
    /\ row.tenant_id = current_setting(c)

\* USING clause: which existing rows a statement on connection c can see
Visible(row, c) ==
    RowSecurityApplies(AppRole) => PolicyExpr(row, c)

\* WITH CHECK clause: which new row versions a statement may write
CheckPasses(row, c) ==
    RowSecurityApplies(AppRole) => PolicyExpr(row, c)

(* ----------------------------- helpers --------------------------------- *)
\* what the transaction of session s reads: committed rows overlaid with its
\* own uncommitted writes (READ COMMITTED)
View(s) ==
    [i \in Ids |-> IF pending[s][i] # Untouched THEN pending[s][i] ELSE table[i]]

\* connections in the pool that nobody has checked out
FreeConns == {c \in Conns \ lent : \A s \in Sessions : conn[s] # c}

\* another transaction holds an uncommitted write on key i
LockedByOther(s, i) ==
    \E o \in Sessions \ {s} : status[o] # "idle" /\ pending[o][i] # Untouched

NoPending == [i \in Ids |-> Untouched]

Outcome(op, s, i, arg, ret, rowcount, err) ==
    [op |-> op, sess |-> s, id |-> i, arg |-> arg,
     ctx |-> IF conn[s] = 0 THEN NULL ELSE current_setting(conn[s]),
     ret |-> ret, rowcount |-> rowcount, err |-> err]

CanIssue(s) == status[s] = "active" /\ nstmt < MaxStmts

(* ------------------------- statement_timeout --------------------------- *)
\* values given to SET statement_timeout: the test's '50ms', and '0', the
\* server default, which disables the timeout
DefaultTimeout  == "0"
TimeoutSettings == {"50ms", DefaultTimeout}

\* no SET statement_timeout was issued in the current transaction
NoSet == "<no-set>"

\* arguments of pg_sleep(seconds)
SleepSeconds == {0, 1}

\* the setting's value in milliseconds (unit suffix ms; a bare number is
\* already in milliseconds)
timeout_ms(v) == IF v = "50ms" THEN 50 ELSE 0

\* SHOW statement_timeout on connection c: a SET of the current transaction
\* is in effect at once
statement_timeout(c) ==
    IF stmt_timeout[c].txn # NoSet THEN stmt_timeout[c].txn
    ELSE stmt_timeout[c].session

\* a server that never cancels a statement
statement_cancelled_never(limit, ms) ==
    FALSE

\* the statement is cancelled when a timeout is set and it runs longer
statement_cancelled(limit, ms) ==
    limit > 0 /\ ms > limit

\* a SET that would outlive the transaction it was issued in
session_timeout_after_keeps_set(c, committed) ==
    statement_timeout(c)

\* The session value of statement_timeout once the transaction on c has
\* ended.  SET without LOCAL is transactional: it lasts for the session when
\* the transaction commits and is undone when the transaction rolls back.
\* Returning the connection to the pool rolls back and resets nothing else.
session_timeout_after(c, committed) ==
    IF committed THEN statement_timeout(c) ELSE stmt_timeout[c].session

(* ------------------------------- Init ---------------------------------- *)
\* sessions, connections and test_tenant_table right after db_engine
InitSessions ==
    /\ table = [i \in Ids |-> NoRow]
    /\ status = [s \in Sessions |-> "idle"]
    /\ conn = [s \in Sessions |-> 0]
    /\ pending = [s \in Sessions |-> NoPending]
    /\ nstmt = 0
    /\ guc_local = [c \in Conns |-> NoLocal]
    /\ guc_session = [c \in Conns |-> NULL]
    /\ last = [op |-> "init", sess |-> 0, id |-> 0, arg |-> NULL, ctx |-> NULL,
               ret |-> {}, rowcount |-> 0, err |-> "none"]
    /\ catalog = db_engine_catalog
    /\ lent = {}
    /\ stmt_timeout = [c \in Conns |-> [session |-> DefaultTimeout, txn |-> NoSet]]
    /\ elapsed = 0

\* pytest has not collected anything: no test session is being set up
NoCollection ==
    /\ environ = [AUMOS_SERVICES_RUNNING |-> "<unset>",
                  AUMOS_USE_TESTCONTAINERS |-> "<unset>"]
    /\ items = {}
    /\ skip_marks = <<>>

\* no seed_all call is running or has run
InitSeeders ==
    /\ tenants_tx = [sd \in Seeders |-> NoWrites]
    /\ users_tx = [sd \in Seeders |-> NoWrites]
    /\ spc = [sd \in Seeders |-> "idle"]
    /\ sidx = [sd \in Seeders |-> 0]
    /\ results = [sd \in Seeders |-> NoResults]
    /\ outcome = NoOutcome
    /\ nruns = 0
    /\ topics = {}
    /\ buckets = {}
    /\ creating = [sd \in Seeders |-> FALSE]
    /\ ddl_wait = [sd \in Seeders |-> FALSE]

\* the database of the test harness: db_engine has created an empty tenants
\* table and nothing has been seeded
Init ==
    /\ InitSessions
    /\ InitSeeders
    /\ tenants = EmptyTable
    /\ test_users = EmptyTable
    /\ relations = {"tenants"}
    /\ kafka_lib = FALSE
    /\ boto_lib = FALSE
    /\ NoCollection

(* ------------------------------ actions -------------------------------- *)
\* async with db_session_factory() as session, first execute: a connection is
\* checked out of the pool and a transaction begins on it
Begin(s) ==
    /\ status[s] = "idle"
    /\ \E c \in FreeConns :
        /\ conn' = [conn EXCEPT ![s] = c]
        /\ last' = [op |-> "begin", sess |-> s, id |-> 0, arg |-> NULL,
                    ctx |-> current_setting(c), ret |-> {}, rowcount |-> 0,
                    err |-> "none"]
    /\ status' = [status EXCEPT ![s] = "active"]
    /\ pending' = [pending EXCEPT ![s] = NoPending]
    /\ UNCHANGED <<table, nstmt, guc_local, guc_session>>
    /\ UNCHANGED <<poolvars, seedvars, collectvars>>

\* SELECT set_tenant_context(:tid) / SELECT set_config('app.current_tenant', :tid, TRUE)
SetTenantContext(s, t) ==
    /\ CanIssue(s)
    /\ guc_local' = set_tenant_context(conn[s], t)
    /\ nstmt' = nstmt + 1
    /\ last' = [Outcome("set_context", s, 0, t, {}, 0, "none") EXCEPT !.ctx = t]
    /\ UNCHANGED <<table, status, conn, pending, guc_session>>
    /\ UNCHANGED <<poolvars, seedvars, collectvars>>

\* SELECT current_setting('app.current_tenant', TRUE)
ReadContext(s) ==
    /\ CanIssue(s)
    /\ nstmt' = nstmt + 1
    /\ last' = Outcome("read_context", s, 0, current_setting(conn[s]), {}, 0, "none")
    /\ UNCHANGED <<table, status, conn, pending, guc_local, guc_session>>
    /\ UNCHANGED <<poolvars, seedvars, collectvars>>

\* SELECT COUNT(*) FROM test_tenant_table WHERE id = :id
SelectById(s, i) ==
    /\ CanIssue(s)
    /\ LET row == View(s)[i]
           ret == IF row # NoRow /\ Visible(row, conn[s]) THEN {i} ELSE {}
       IN  last' = Outcome("select", s, i, NULL, ret, Cardinality(ret), "none")
    /\ nstmt' = nstmt + 1
    /\ UNCHANGED <<table, status, conn, pending, guc_local, guc_session>>
    /\ UNCHANGED <<poolvars, seedvars, collectvars>>

\* SELECT id FROM test_tenant_table [WHERE name LIKE :prefix]
SelectAll(s) ==
    /\ CanIssue(s)
    /\ LET ret == {i \in Ids : View(s)[i] # NoRow /\ Visible(View(s)[i], conn[s])}
       IN  last' = Outcome("select_all", s, 0, NULL, ret, Cardinality(ret), "none")
    /\ nstmt' = nstmt + 1
    /\ UNCHANGED <<table, status, conn, pending, guc_local, guc_session>>
    /\ UNCHANGED <<poolvars, seedvars, collectvars>>

\* INSERT INTO test_tenant_table (id, tenant_id, name) VALUES (:id, :tid, :name)
\* The WITH CHECK clause is evaluated on the new row first; then the primary
\* key is checked, waiting for a concurrent uncommitted write on the same key.
Insert(s, i, tid, name) ==
    /\ CanIssue(s)
    /\ LET new == [tenant_id |-> tid, name |-> name] IN
       IF ~CheckPasses(new, conn[s])
       THEN /\ status' = [status EXCEPT ![s] = "aborted"]
            /\ last' = Outcome("insert", s, i, tid, {}, 0, "rls_violation")
            /\ UNCHANGED pending
       ELSE /\ ~LockedByOther(s, i)
            /\ IF View(s)[i] # NoRow
               THEN /\ status' = [status EXCEPT ![s] = "aborted"]
                    /\ last' = Outcome("insert", s, i, tid, {}, 0, "unique_violation")
                    /\ UNCHANGED pending
               ELSE /\ pending' = [pending EXCEPT ![s][i] = new]
                    /\ last' = Outcome("insert", s, i, tid, {}, 1, "none")
                    /\ UNCHANGED status
    /\ nstmt' = nstmt + 1
    /\ UNCHANGED <<table, conn, guc_local, guc_session>>
    /\ UNCHANGED <<poolvars, seedvars, collectvars>>

\* A row-modifying statement (UPDATE / DELETE ... WHERE id = :id): the USING
\* clause selects the target, the row lock is awaited, and for UPDATE the
\* WITH CHECK clause is evaluated on the new row version.
Modify(s, i, op, arg, new) ==
    /\ CanIssue(s)
    /\ LET row == View(s)[i] IN
       IF row = NoRow \/ ~Visible(row, conn[s])
       THEN /\ last' = Outcome(op, s, i, arg, {}, 0, "none")
            /\ UNCHANGED <<pending, status>>
       ELSE /\ ~LockedByOther(s, i)
            /\ IF new # NoRow /\ ~CheckPasses(new, conn[s])
               THEN /\ status' = [status EXCEPT ![s] = "aborted"]
                    /\ last' = Outcome(op, s, i, arg, {}, 0, "rls_violation")
                    /\ UNCHANGED pending
               ELSE /\ pending' = [pending EXCEPT ![s][i] = new]
                    /\ last' = Outcome(op, s, i, arg, {}, 1, "none")
                    /\ UNCHANGED status
    /\ nstmt' = nstmt + 1
    /\ UNCHANGED <<table, conn, guc_local, guc_session>>
    /\ UNCHANGED <<poolvars, seedvars, collectvars>>

\* UPDATE test_tenant_table SET name = :name WHERE id = :id
Update(s, i, name) ==
    Modify(s, i, "update", name, [View(s)[i] EXCEPT !.name = name])

\* UPDATE test_tenant_table SET tenant_id = :tid WHERE id = :id
UpdateTenant(s, i, tid) ==
    Modify(s, i, "update_tenant", tid, [View(s)[i] EXCEPT !.tenant_id = tid])

\* DELETE FROM test_tenant_table WHERE id = :id
Delete(s, i) ==
    Modify(s, i, "delete", NULL, NoRow)

\* The transaction of session s ends and its connection goes back to the
\* pool: the transaction-local setting is dropped with it, and a SET of the
\* transaction is kept or undone with the transaction.  The outcome names
\* the keys the transaction had written.
EndTxn(s, op, newtable) ==
    /\ status[s] \in {"active", "aborted"}
    /\ table' = newtable
    /\ status' = [status EXCEPT ![s] = "idle"]
    /\ conn' = [conn EXCEPT ![s] = 0]
    /\ pending' = [pending EXCEPT ![s] = NoPending]
    /\ UNCHANGED <<nstmt, seedvars, collectvars, catalog, lent, elapsed>>
    /\ stmt_timeout' =
           [stmt_timeout EXCEPT ![conn[s]] =
               [session |-> session_timeout_after(
                                conn[s], op = "commit" /\ status[s] = "active"),
                txn |-> NoSet]]
    /\ guc_local' = [guc_local EXCEPT ![conn[s]] = NoLocal]
    /\ guc_session' = [guc_session EXCEPT ![conn[s]] = SessionValueAfterTxn(conn[s])]
    /\ last' = [op |-> op, sess |-> s, id |-> 0, arg |-> NULL, ctx |-> NULL,
                ret |-> {i \in Ids : pending[s][i] # Untouched},
                rowcount |-> 0, err |-> "none"]

\* a COMMIT that would keep the writes of a failed transaction
Commit_keeps_failed(s) ==
    EndTxn(s, "commit", View(s))

\* await session.commit(): COMMIT of a failed transaction rolls it back
Commit(s) ==
    EndTxn(s, "commit", IF status[s] = "active" THEN View(s) ELSE table)

\* a ROLLBACK that would store the transaction's writes
Rollback_commits(s) ==
    EndTxn(s, "rollback", View(s))

\* await session.rollback(), or leaving the async with block without commit
Rollback(s) ==
    EndTxn(s, "rollback", table)

Next ==
    \/ \E s \in Sessions : Begin(s)
    \/ \E s \in Sessions, t \in ContextStrings : SetTenantContext(s, t)
    \/ \E s \in Sessions : ReadContext(s)
    \/ \E s \in Sessions, i \in Ids : SelectById(s, i)
    \/ \E s \in Sessions : SelectAll(s)
    \/ \E s \in Sessions, i \in Ids, tid \in RowTenants, n \in InsertNames : Insert(s, i, tid, n)
    \/ \E s \in Sessions, i \in Ids, n \in UpdateNames : Update(s, i, n)
    \/ \E s \in Sessions, i \in Ids, tid \in RowTenants : UpdateTenant(s, i, tid)
    \/ \E s \in Sessions, i \in Ids : Delete(s, i)
    \/ \E s \in Sessions : Commit(s)
    \/ \E s \in Sessions : Rollback(s)

Spec == Init /\ [][Next]_vars

(* ============== connection pool and statement timeout ================== *)
\* SET statement_timeout = '50ms': no LOCAL, so the value is the session's
\* once the transaction commits
SetStatementTimeout(s, v) ==
    /\ CanIssue(s)
    /\ stmt_timeout' = [stmt_timeout EXCEPT ![conn[s]].txn = v]
    /\ nstmt' = nstmt + 1
    /\ last' = Outcome("set_timeout", s, 0, v, {}, 0, "none")
    /\ UNCHANGED <<table, status, conn, pending, guc_local, guc_session>>
    /\ UNCHANGED <<catalog, lent, elapsed, seedvars, collectvars>>

\* SELECT pg_sleep(seconds).  A statement running past statement_timeout is
\* cancelled by the server; the driver's error reaches the caller as a
\* DBAPIError and the transaction is left aborted.
PgSleep(s, seconds) ==
    /\ CanIssue(s)
    /\ LET limit == timeout_ms(statement_timeout(conn[s]))
           ms    == seconds * 1000
       IN  IF statement_cancelled(limit, ms)
           THEN /\ elapsed' = limit
                /\ status' = [status EXCEPT ![s] = "aborted"]
                /\ last' = Outcome("pg_sleep", s, 0, seconds, {}, 0, "DBAPIError")
           ELSE /\ elapsed' = ms
                /\ last' = Outcome("pg_sleep", s, 0, seconds, {}, 1, "none")
                /\ UNCHANGED status
    /\ nstmt' = nstmt + 1
    /\ UNCHANGED <<table, conn, pending, guc_local, guc_session>>
    /\ UNCHANGED <<catalog, lent, stmt_timeout, seedvars, collectvars>>

\* async with db_session_factory() as session, first execute, seen from the
\* pool: the unit of work asks the pool for a connection
Acquire(s) ==
    /\ status[s] = "idle"
    /\ status' = [status EXCEPT ![s] = "waiting"]
    /\ last' = [op |-> "acquire", sess |-> s, id |-> 0, arg |-> NULL,
                ctx |-> NULL, ret |-> {}, rowcount |-> 0, err |-> "none"]
    /\ UNCHANGED <<table, conn, pending, nstmt, guc_local, guc_session>>
    /\ UNCHANGED <<poolvars, seedvars, collectvars>>

\* the pool hands a free connection to a waiting unit of work and a
\* transaction begins on it
Checkout(s) ==
    /\ status[s] = "waiting"
    /\ \E c \in FreeConns :
        /\ conn' = [conn EXCEPT ![s] = c]
        /\ last' = [op |-> "begin", sess |-> s, id |-> 0, arg |-> NULL,
                    ctx |-> current_setting(c), ret |-> {}, rowcount |-> 0,
                    err |-> "none"]
    /\ status' = [status EXCEPT ![s] = "active"]
    /\ pending' = [pending EXCEPT ![s] = NoPending]
    /\ UNCHANGED <<table, nstmt, guc_local, guc_session>>
    /\ UNCHANGED <<poolvars, seedvars, collectvars>>

\* a pool whose wait for a connection has no time limit
PoolTimeout_disabled(s) ==
    /\ FALSE
    /\ UNCHANGED vars

\* create_async_engine(url, echo=False, pool_pre_ping=True) keeps the pool's
\* default limit on the wait for a connection: when none is returned within
\* pool_timeout the wait ends with TimeoutError
PoolTimeout(s) ==
    /\ status[s] = "waiting"
    /\ FreeConns = {}
    /\ status' = [status EXCEPT ![s] = "idle"]
    /\ last' = [op |-> "acquire", sess |-> s, id |-> 0, arg |-> NULL,
                ctx |-> NULL, ret |-> {}, rowcount |-> 0, err |-> "TimeoutError"]
    /\ UNCHANGED <<table, conn, pending, nstmt, guc_local, guc_session>>
    /\ UNCHANGED <<poolvars, seedvars, collectvars>>

\* async with engine.begin() as conn, by another user of the same engine
\* (the seeding functions, a test's own set-up): a connection leaves the pool
LendConnection(c) ==
    /\ c \in FreeConns
    /\ lent' = lent \cup {c}
    /\ UNCHANGED <<table, status, conn, pending, nstmt, guc_local, guc_session, last>>
    /\ UNCHANGED <<catalog, stmt_timeout, elapsed, seedvars, collectvars>>

\* the end of that block: the connection is back in the pool
ReturnConnection(c) ==
    /\ c \in lent
    /\ lent' = lent \ {c}
    /\ UNCHANGED <<table, status, conn, pending, nstmt, guc_local, guc_session, last>>
    /\ UNCHANGED <<catalog, stmt_timeout, elapsed, seedvars, collectvars>>

PoolNext ==
    \/ \E s \in Sessions : Acquire(s)
    \/ \E s \in Sessions : Checkout(s)
    \/ \E s \in Sessions : PoolTimeout(s)
    \/ \E c \in Conns : LendConnection(c)
    \/ \E c \in Conns : ReturnConnection(c)
    \/ \E s \in Sessions, t \in Tenants : SetTenantContext(s, t)
    \/ \E s \in Sessions, v \in TimeoutSettings : SetStatementTimeout(s, v)
    \/ \E s \in Sessions, seconds \in SleepSeconds : PgSleep(s, seconds)
    \/ \E s \in Sessions : Commit(s)
    \/ \E s \in Sessions : Rollback(s)

\* units of work on the pooled connections of the harness's engine
PoolSpec == Init /\ [][PoolNext]_vars

\* The wait for a connection is a timed wait: it ends, with a connection or
\* with the timeout.  Nothing is assumed about when a unit of work that
\* holds a connection gives it back.
PoolFairSpec ==
    PoolSpec /\ \A s \in Sessions : WF_vars(Checkout(s) \/ PoolTimeout(s))

(* ============================== seeding ================================ *)
\* what a seed transaction reads: committed rows overlaid with its own writes
TenantsView(sd) == tenants_tx[sd] @@ tenants

UsersView(sd) == users_tx[sd] @@ test_users

\* another seed transaction holds an uncommitted write on key k
TenantLocked(sd, k) ==
    \E o \in Seeders \ {sd} : k \in DOMAIN tenants_tx[o]

UserLocked(sd, k) ==
    \E o \in Seeders \ {sd} : k \in DOMAIN users_tx[o]

\* a plain INSERT, failing on a row that is already there
upsert_tenant_plain_insert(view, t) ==
    IF t.id \in DOMAIN view
        \/ \E k \in DOMAIN view \ {t.id} : view[k].slug = t.slug
    THEN [ok |-> FALSE, row |-> NoTenant]
    ELSE [ok |-> TRUE, row |-> [name |-> t.name, slug |-> t.slug]]

\* INSERT INTO tenants (id, name, slug) VALUES (...) ON CONFLICT (id)
\* DO UPDATE SET name = EXCLUDED.name, slug = EXCLUDED.slug.
\* Only a conflict on id is arbitrated; slug is UNIQUE, so a row under
\* another id with the same slug fails the statement.
upsert_tenant(view, t) ==
    IF \E k \in DOMAIN view \ {t.id} : view[k].slug = t.slug
    THEN [ok |-> FALSE, row |-> NoTenant]
    ELSE [ok |-> TRUE, row |-> [name |-> t.name, slug |-> t.slug]]

\* the upsert with :tenant_id and :username bound to each other's column
upsert_user_swapped_binds(view, u) ==
    LET new == IF u.id \notin DOMAIN view
               THEN [tenant_id |-> u.username, username |-> u.tenant_id,
                     email |-> u.email, privilege_level |-> u.privilege_level]
               ELSE [view[u.id] EXCEPT !.username = u.tenant_id, !.email = u.email,
                                !.privilege_level = u.privilege_level]
    IN  IF \/ new.privilege_level \notin 1..5
           \/ \E k \in DOMAIN view \ {u.id} : view[k].email = u.email
        THEN [ok |-> FALSE, row |-> NoUser]
        ELSE [ok |-> TRUE, row |-> new]

\* INSERT INTO test_users (id, tenant_id, username, email, privilege_level)
\* VALUES (...) ON CONFLICT (id) DO UPDATE SET username = EXCLUDED.username,
\* email = EXCLUDED.email, privilege_level = EXCLUDED.privilege_level.
\* An existing row keeps its tenant_id.  email is UNIQUE and privilege_level
\* is CHECKed BETWEEN 1 AND 5.
upsert_user(view, u) ==
    LET new == IF u.id \notin DOMAIN view
               THEN [tenant_id |-> u.tenant_id, username |-> u.username,
                     email |-> u.email, privilege_level |-> u.privilege_level]
               ELSE [view[u.id] EXCEPT !.username = u.username, !.email = u.email,
                                !.privilege_level = u.privilege_level]
    IN  IF \/ new.privilege_level \notin 1..5
           \/ \E k \in DOMAIN view \ {u.id} : view[k].email = u.email
        THEN [ok |-> FALSE, row |-> NoUser]
        ELSE [ok |-> TRUE, row |-> new]

\* seed_tenants returning the number of rows it newly inserted
seed_tenants_count_inserted(before) ==
    Cardinality(SeedTenantIds \ DOMAIN before)

\* seed_tenants: return len(SEED_TENANTS)
seed_tenants_count(before) ==
    Len(SEED_TENANTS)

\* seed_users: return len(SEED_USERS)
seed_users_count(before) ==
    Len(SEED_USERS)

\* seed_kafka_topics without the ImportError guard
seed_kafka_topics_unguarded(lib, broker, existing) ==
    IF ~lib THEN [raised |-> "ImportError", count |-> 0, now |-> existing]
    ELSE IF broker = "down" THEN [raised |-> "none", count |-> 0, now |-> existing]
    ELSE [raised |-> "none",
          count |-> Cardinality(SEED_KAFKA_TOPICS \ existing),
          now |-> existing \cup SEED_KAFKA_TOPICS]

\* seed_kafka_topics(bootstrap_servers): 0 when the client library is
\* missing; otherwise one future per topic, counted when result() returns and
\* skipped when it raises (topic already exists, broker not answering)
seed_kafka_topics(lib, broker, existing) ==
    IF ~lib THEN [raised |-> "none", count |-> 0, now |-> existing]
    ELSE IF broker = "down" THEN [raised |-> "none", count |-> 0, now |-> existing]
    ELSE [raised |-> "none",
          count |-> Cardinality(SEED_KAFKA_TOPICS \ existing),
          now |-> existing \cup SEED_KAFKA_TOPICS]

\* seed_minio_buckets counting a bucket that is already there as created
seed_minio_buckets_counts_existing(lib, store, existing) ==
    IF ~lib THEN [raised |-> "none", count |-> 0, now |-> existing]
    ELSE IF store = "unreachable"
    THEN [raised |-> "EndpointConnectionError", count |-> 0, now |-> existing]
    ELSE IF store = "denied"
    THEN [raised |-> "none", count |-> 0, now |-> existing]
    ELSE [raised |-> "none",
          count |-> Cardinality(BucketNames),
          now |-> existing \cup BucketNames]

\* seed_minio_buckets(endpoint): 0 when boto3 is missing; otherwise one
\* create_bucket per tenant, counted when it returns.  Only ClientError is
\* caught (bucket already there, or a refusal by the store, which is
\* logged); a store that cannot be reached raises EndpointConnectionError,
\* which is not a ClientError and leaves the function.
seed_minio_buckets(lib, store, existing) ==
    IF ~lib THEN [raised |-> "none", count |-> 0, now |-> existing]
    ELSE IF store = "unreachable"
    THEN [raised |-> "EndpointConnectionError", count |-> 0, now |-> existing]
    ELSE IF store = "denied"
    THEN [raised |-> "none", count |-> 0, now |-> existing]
    ELSE [raised |-> "none",
          count |-> Cardinality(BucketNames \ existing),
          now |-> existing \cup BucketNames]

\* seed_all ends for caller sd, by returning results or by raising
Ended(sd, raised, at) ==
    /\ outcome' = [caller |-> sd, raised |-> raised, at |-> at,
                   results |-> IF raised = "none" THEN results[sd] ELSE NoResults]
    /\ results' = [results EXCEPT ![sd] = NoResults]
    /\ spc' = [spc EXCEPT ![sd] = "idle"]
    /\ sidx' = [sidx EXCEPT ![sd] = 0]

\* the table the function caller sd is in creates and fills
TableOf(sd) == IF spc[sd] = "seed_tenants" THEN "tenants" ELSE "test_users"

\* another open transaction has created table t and not committed yet
BeingCreated(sd, t) ==
    \E o \in Seeders \ {sd} : creating[o] /\ TableOf(o) = t

\* CREATE TABLE IF NOT EXISTS t, the first statement of seed_tenants and of
\* seed_users.  The existence test sees committed tables only.  When the
\* table is absent the statement creates it; when another open transaction
\* has created it, the statement waits on that transaction's catalog rows.
create_table_if_not_exists(exists, being_created) ==
    IF exists THEN "skip"
    ELSE IF being_created THEN "wait"
    ELSE "create"

\* await seed_all(engine, kafka_bootstrap_servers, minio_endpoint): results
\* = {}, then seed_tenants opens its transaction (engine.begin()).  The two
\* optional arguments are read only where seed_all tests them, and are drawn
\* there.  Callers are interchangeable: the next call is made by the idle
\* caller with the least number.
SeedAll(sd) ==
    /\ spc[sd] = "idle"
    /\ \A o \in Seeders : o < sd => spc[o] # "idle"
    /\ nruns < MaxRuns
    /\ nruns' = nruns + 1
    /\ spc' = [spc EXCEPT ![sd] = "seed_tenants"]
    /\ sidx' = [sidx EXCEPT ![sd] = 0]
    /\ results' = [results EXCEPT ![sd] = NoResults]
    /\ UNCHANGED <<tenants, test_users, tenants_tx, users_tx, outcome,
                   kafka_lib, boto_lib, topics, buckets>>
    /\ UNCHANGED <<relations, creating, ddl_wait>>
    /\ UNCHANGED <<dbvars, collectvars>>

\* the first statement of seed_tenants and of seed_users
CreateTableIfNotExists(sd) ==
    /\ spc[sd] \in {"seed_tenants", "seed_users"}
    /\ sidx[sd] = 0
    /\ ~ddl_wait[sd]
    /\ LET t == TableOf(sd)
           r == create_table_if_not_exists(t \in relations, BeingCreated(sd, t))
       IN  /\ creating' = [creating EXCEPT ![sd] = (r = "create")]
           /\ ddl_wait' = [ddl_wait EXCEPT ![sd] = (r = "wait")]
           /\ sidx' = [sidx EXCEPT ![sd] = IF r = "wait" THEN 0 ELSE 1]
    /\ UNCHANGED <<tenants, test_users, tenants_tx, users_tx, spc, results,
                   outcome, nruns, kafka_lib, boto_lib, topics, buckets,
                   relations>>
    /\ UNCHANGED <<dbvars, collectvars>>

\* The transaction a CREATE TABLE waited for has ended.  If it committed,
\* the table's catalog rows are there and the waiting statement fails on
\* the catalog's unique index (IntegrityError): the async with block rolls
\* back and seed_all raises.  If it rolled back, the statement creates the
\* table.
CreateTableResume(sd) ==
    /\ ddl_wait[sd]
    /\ ~BeingCreated(sd, TableOf(sd))
    /\ ddl_wait' = [ddl_wait EXCEPT ![sd] = FALSE]
    /\ IF TableOf(sd) \in relations
       THEN /\ Ended(sd, "IntegrityError", spc[sd])
            /\ UNCHANGED creating
       ELSE /\ creating' = [creating EXCEPT ![sd] = TRUE]
            /\ sidx' = [sidx EXCEPT ![sd] = 1]
            /\ UNCHANGED <<spc, outcome, results>>
    /\ UNCHANGED <<tenants, test_users, tenants_tx, users_tx, nruns,
                   kafka_lib, boto_lib, topics, buckets, relations>>
    /\ UNCHANGED <<dbvars, collectvars>>

\* one pass of the loop over SEED_TENANTS; a failing statement leaves the
\* async with block, which rolls the transaction back, and seed_all raises
UpsertTenant(sd) ==
    /\ spc[sd] = "seed_tenants"
    /\ sidx[sd] \in 1..Len(SEED_TENANTS)
    /\ LET t == SEED_TENANTS[sidx[sd]]
           r == upsert_tenant(TenantsView(sd), t)
       IN  /\ ~TenantLocked(sd, t.id)
           /\ IF r.ok
              THEN /\ tenants_tx' = [tenants_tx EXCEPT ![sd] = (t.id :> r.row) @@ @]
                   /\ sidx' = [sidx EXCEPT ![sd] = @ + 1]
                   /\ UNCHANGED <<spc, outcome, results, creating>>
              ELSE /\ tenants_tx' = [tenants_tx EXCEPT ![sd] = NoWrites]
                   /\ creating' = [creating EXCEPT ![sd] = FALSE]
                   /\ Ended(sd, "IntegrityError", "seed_tenants")
    /\ UNCHANGED <<tenants, test_users, users_tx, nruns, kafka_lib, boto_lib,
                   topics, buckets, relations, ddl_wait>>
    /\ UNCHANGED <<dbvars, collectvars>>

\* the end of seed_tenants: the transaction commits, the count is stored in
\* results["tenants"], and seed_users opens its transaction
SeedTenantsCommit(sd) ==
    /\ spc[sd] = "seed_tenants"
    /\ sidx[sd] = Len(SEED_TENANTS) + 1
    /\ tenants' = TenantsView(sd)
    /\ tenants_tx' = [tenants_tx EXCEPT ![sd] = NoWrites]
    /\ results' = [results EXCEPT ![sd] = "tenants" :> seed_tenants_count(tenants)]
    /\ spc' = [spc EXCEPT ![sd] = "seed_users"]
    /\ sidx' = [sidx EXCEPT ![sd] = 0]
    /\ relations' = relations \cup {"tenants"}
    /\ creating' = [creating EXCEPT ![sd] = FALSE]
    /\ UNCHANGED <<test_users, users_tx, outcome, nruns, kafka_lib,
                   boto_lib, topics, buckets, ddl_wait>>
    /\ UNCHANGED <<dbvars, collectvars>>

\* one pass of the loop over SEED_USERS
UpsertUser(sd) ==
    /\ spc[sd] = "seed_users"
    /\ sidx[sd] \in 1..Len(SEED_USERS)
    /\ LET u == SEED_USERS[sidx[sd]]
           r == upsert_user(UsersView(sd), u)
       IN  /\ ~UserLocked(sd, u.id)
           /\ IF r.ok
              THEN /\ users_tx' = [users_tx EXCEPT ![sd] = (u.id :> r.row) @@ @]
                   /\ sidx' = [sidx EXCEPT ![sd] = @ + 1]
                   /\ UNCHANGED <<spc, outcome, results, creating>>
              ELSE /\ users_tx' = [users_tx EXCEPT ![sd] = NoWrites]
                   /\ creating' = [creating EXCEPT ![sd] = FALSE]
                   /\ Ended(sd, "IntegrityError", "seed_users")
    /\ UNCHANGED <<tenants, test_users, tenants_tx, nruns, kafka_lib,
                   boto_lib, topics, buckets, relations, ddl_wait>>
    /\ UNCHANGED <<dbvars, collectvars>>

\* the end of seed_users: commit, results["users"]
SeedUsersCommit(sd) ==
    /\ spc[sd] = "seed_users"
    /\ sidx[sd] = Len(SEED_USERS) + 1
    /\ test_users' = UsersView(sd)
    /\ users_tx' = [users_tx EXCEPT ![sd] = NoWrites]
    /\ results' = [results EXCEPT
                      ![sd] = @ @@ ("users" :> seed_users_count(test_users))]
    /\ spc' = [spc EXCEPT ![sd] = "seed_kafka_topics"]
    /\ sidx' = [sidx EXCEPT ![sd] = 0]
    /\ relations' = relations \cup {"test_users"}
    /\ creating' = [creating EXCEPT ![sd] = FALSE]
    /\ UNCHANGED <<tenants, tenants_tx, outcome, nruns, kafka_lib,
                   boto_lib, topics, buckets, ddl_wait>>
    /\ UNCHANGED <<dbvars, collectvars>>

\* if kafka_bootstrap_servers: results["kafka_topics"] = await seed_kafka_topics(...)
SeedKafkaTopics(sd, kafka_bootstrap_servers, broker) ==
    /\ spc[sd] = "seed_kafka_topics"
    /\ IF ~kafka_bootstrap_servers
       THEN /\ spc' = [spc EXCEPT ![sd] = "seed_minio_buckets"]
            /\ UNCHANGED <<results, topics, outcome, sidx>>
       ELSE LET r == seed_kafka_topics(kafka_lib, broker, topics)
            IN  IF r.raised = "none"
                THEN /\ results' = [results EXCEPT
                                       ![sd] = @ @@ ("kafka_topics" :> r.count)]
                     /\ topics' = r.now
                     /\ spc' = [spc EXCEPT ![sd] = "seed_minio_buckets"]
                     /\ UNCHANGED <<outcome, sidx>>
                ELSE /\ Ended(sd, r.raised, "seed_kafka_topics")
                     /\ UNCHANGED topics
    /\ UNCHANGED <<tenants, test_users, tenants_tx, users_tx, nruns,
                   kafka_lib, boto_lib, buckets, relations, creating, ddl_wait>>
    /\ UNCHANGED <<dbvars, collectvars>>

\* if minio_endpoint: results["minio_buckets"] = await seed_minio_buckets(...)
SeedMinioBuckets(sd, minio_endpoint, store) ==
    /\ spc[sd] = "seed_minio_buckets"
    /\ IF ~minio_endpoint
       THEN /\ spc' = [spc EXCEPT ![sd] = "return"]
            /\ UNCHANGED <<results, buckets, outcome, sidx>>
       ELSE LET r == seed_minio_buckets(boto_lib, store, buckets)
            IN  IF r.raised = "none"
                THEN /\ results' = [results EXCEPT
                                       ![sd] = @ @@ ("minio_buckets" :> r.count)]
                     /\ buckets' = r.now
                     /\ spc' = [spc EXCEPT ![sd] = "return"]
                     /\ UNCHANGED <<outcome, sidx>>
                ELSE /\ Ended(sd, r.raised, "seed_minio_buckets")
                     /\ UNCHANGED buckets
    /\ UNCHANGED <<tenants, test_users, tenants_tx, users_tx, nruns,
                   kafka_lib, boto_lib, topics, relations, creating, ddl_wait>>
    /\ UNCHANGED <<dbvars, collectvars>>

\* return results
SeedAllReturn(sd) ==
    /\ spc[sd] = "return"
    /\ Ended(sd, "none", "return")
    /\ UNCHANGED <<tenants, test_users, tenants_tx, users_tx, nruns,
                   kafka_lib, boto_lib, topics, buckets, relations, creating,
                   ddl_wait>>
    /\ UNCHANGED <<dbvars, collectvars>>

\* the database and the environment a seed run may start from
SeedInit ==
    /\ InitSessions
    /\ InitSeeders
    /\ tenants \in PriorTenantRows
    /\ test_users \in PriorUserRows
    /\ relations \in {R \in SUBSET SeedTables :
                          /\ tenants # EmptyTable => "tenants" \in R
                          /\ test_users # EmptyTable => "test_users" \in R}
    /\ kafka_lib \in BOOLEAN
    /\ boto_lib \in BOOLEAN
    /\ NoCollection

SeedNext ==
    \/ \E sd \in Seeders : SeedAll(sd)
    \/ \E sd \in Seeders : CreateTableIfNotExists(sd)
    \/ \E sd \in Seeders : CreateTableResume(sd)
    \/ \E sd \in Seeders : UpsertTenant(sd)
    \/ \E sd \in Seeders : SeedTenantsCommit(sd)
    \/ \E sd \in Seeders : UpsertUser(sd)
    \/ \E sd \in Seeders : SeedUsersCommit(sd)
    \/ \E sd \in Seeders, requested \in BOOLEAN, broker \in BrokerStates :
            SeedKafkaTopics(sd, requested, broker)
    \/ \E sd \in Seeders, requested \in BOOLEAN, store \in StoreStates :
            SeedMinioBuckets(sd, requested, store)
    \/ \E sd \in Seeders : SeedAllReturn(sd)

SeedSpec == SeedInit /\ [][SeedNext]_vars

\* seed_all run again after the run before it has ended
SeedAllInARow(sd) ==
    /\ \A o \in Seeders : spc[o] = "idle"
    /\ SeedAll(sd)

\* runs in a row: no CREATE TABLE ever finds another transaction open
RerunNext ==
    \/ \E sd \in Seeders : SeedAllInARow(sd)
    \/ \E sd \in Seeders : CreateTableIfNotExists(sd)
    \/ \E sd \in Seeders : UpsertTenant(sd)
    \/ \E sd \in Seeders : SeedTenantsCommit(sd)
    \/ \E sd \in Seeders : UpsertUser(sd)
    \/ \E sd \in Seeders : SeedUsersCommit(sd)
    \/ \E sd \in Seeders, requested \in BOOLEAN, broker \in BrokerStates :
            SeedKafkaTopics(sd, requested, broker)
    \/ \E sd \in Seeders, requested \in BOOLEAN, store \in StoreStates :
            SeedMinioBuckets(sd, requested, store)
    \/ \E sd \in Seeders : SeedAllReturn(sd)

RerunSpec == SeedInit /\ [][RerunNext]_vars

\* seed runs on the database of the test harness (db_engine: tenants is
\* empty, test_users does not exist), with either client library present
\* or missing
FreshSeedInit ==
    /\ InitSessions
    /\ InitSeeders
    /\ tenants = EmptyTable
    /\ test_users = EmptyTable
    /\ relations = {"tenants"}
    /\ kafka_lib \in BOOLEAN
    /\ boto_lib \in BOOLEAN
    /\ NoCollection

FreshSeedSpec == FreshSeedInit /\ [][SeedNext]_vars

(* ===================== test collection (conftest.py) ==================== *)
\* The test classes of the repository: the directory under tests/, the class
\* name, and the markers the class carries, from its own decorators and from
\* the pytestmark of its module.
TestClasses ==
    {[dir |-> "database", cls |-> "TestRepositoryPatternBasic",
      markers |-> {"integration", "phase0"}],
     [dir |-> "database", cls |-> "TestTransactionIsolation",
      markers |-> {"integration", "phase0"}],
     [dir |-> "database", cls |-> "TestMigrationSmoke",
      markers |-> {"integration", "phase0"}],
     [dir |-> "database", cls |-> "TestRLSPolicyCatalog",
      markers |-> {"integration", "phase0"}],
     [dir |-> "database", cls |-> "TestRLSRowFiltering",
      markers |-> {"integration", "phase0"}],
     [dir |-> "database", cls |-> "TestRLSInsertWithCheck",
      markers |-> {"integration", "phase0"}],
     [dir |-> "phase0", cls |-> "TestRLSEnforcementReal",
      markers |-> {"phase0", "integration"}],
     [dir |-> "phase0", cls |-> "TestRLSEnforcementUnit", markers |-> {"phase0"}],
     [dir |-> "phase0", cls |-> "TestErrorPropagation", markers |-> {"phase0"}],
     [dir |-> "phase0", cls |-> "TestEventPropagationReal",
      markers |-> {"phase0", "integration"}],
     [dir |-> "phase0", cls |-> "TestEventPropagationUnit", markers |-> {"phase0"}],
     [dir |-> "phase0", cls |-> "TestAuthFlow", markers |-> {"phase0"}],
     [dir |-> "phase0", cls |-> "TestTenantIsolation", markers |-> {"phase0"}],
     [dir |-> "chaos", cls |-> "TestKafkaPartitionChaos",
      markers |-> {"chaos", "integration"}],
     [dir |-> "chaos", cls |-> "TestRedisUnavailableChaos",
      markers |-> {"chaos", "integration"}],
     [dir |-> "chaos", cls |-> "TestPostgresTimeoutChaos",
      markers |-> {"chaos", "integration"}],
     [dir |-> "performance", cls |-> "TestAuthLatencyBenchmarks",
      markers |-> {"performance", "integration"}],
     [dir |-> "performance", cls |-> "TestKafkaThroughputBenchmarks",
      markers |-> {"performance", "integration"}],
     [dir |-> "performance", cls |-> "TestDBQueryLatencyBenchmarks",
      markers |-> {"performance", "integration"}],
     [dir |-> "phase1", cls |-> "TestSynthesisPipeline", markers |-> {"phase1"}],
     [dir |-> "phase1", cls |-> "TestDataFactoryE2E", markers |-> {"phase1"}],
     [dir |-> "smoke", cls |-> "TestHealthEndpoints", markers |-> {"smoke"}],
     [dir |-> "phase2", cls |-> "TestGovernanceFlow", markers |-> {"phase2"}],
     [dir |-> "phase2", cls |-> "TestObservabilityPipeline", markers |-> {"phase2"}],
     [dir |-> "phase2", cls |-> "TestGovernancePipeline", markers |-> {"phase2"}],
     [dir |-> "phase2", cls |-> "TestSecurityPipeline", markers |-> {"phase2"}],
     [dir |-> "contracts", cls |-> "TestPrivacyEngineConsumerContract",
      markers |-> {"contract", "skipif"}],
     [dir |-> "contracts", cls |-> "TestAuthGatewayConsumerContract",
      markers |-> {"contract", "skipif"}],
     [dir |-> "contracts", cls |-> "TestModelRegistryConsumerContract",
      markers |-> {"contract", "skipif"}],
     [dir |-> "contracts", cls |-> "TestLLMServingConsumerContract",
      markers |-> {"contract", "skipif"}]}

TestDirs == {it.dir : it \in TestClasses}

\* what a pytest run collects: the whole suite, or one directory of it
Collections ==
    {TestClasses} \cup {{it \in TestClasses : it.dir = d} : d \in TestDirs}

\* values the two environment variables may have
Unset     == "<unset>"
EnvValues == {Unset, "true", "True", "TRUE", "false", "1"}

\* the two marker tuples of the hook
ServiceMarks   == {"smoke", "phase0", "phase1", "phase2"}
ContainerMarks == {"integration", "chaos", "performance"}

skip_no_services   == "Services not available"
skip_no_containers == "Testcontainers disabled"

\* item.keywords: the markers of the item and the names of the nodes above
\* it (its class and its directory; module and function names start with
\* test_)
keywords(item) == item.markers \cup {item.cls, item.dir}

\* os.getenv(name, "false")
getenv(name) == IF environ[name] = Unset THEN "false" ELSE environ[name]

\* str.lower() on the values in EnvValues
lower(v) == IF v \in {"True", "TRUE"} THEN "true" ELSE v

\* the comparison without .lower()
env_flag_case_sensitive(name) ==
    getenv(name) = "true"

\* os.getenv(name, "false").lower() == "true"
env_flag(name) ==
    lower(getenv(name)) = "true"

services_required  == env_flag("AUMOS_SERVICES_RUNNING")
use_testcontainers == env_flag("AUMOS_USE_TESTCONTAINERS")

\* the body of the loop of pytest_collection_modifyitems for one item: the
\* skip markers it adds
added_markers(item) ==
    (IF keywords(item) \cap ServiceMarks # {}
        /\ ~services_required /\ ~use_testcontainers
     THEN {skip_no_services} ELSE {})
    \cup
    (IF keywords(item) \cap ContainerMarks # {} /\ ~use_testcontainers
     THEN {skip_no_containers} ELSE {})

\* pytest_collection_modifyitems(config, items), called once after collection
pytest_collection_modifyitems ==
    /\ items # {}
    /\ skip_marks = <<>>
    /\ skip_marks' = [it \in items |-> added_markers(it)]
    /\ UNCHANGED <<environ, items, dbvars, seedvars>>

\* a pytest run: the environment it is started in and what it collected
CollectInit ==
    /\ InitSessions
    /\ InitSeeders
    /\ tenants = EmptyTable
    /\ test_users = EmptyTable
    /\ relations = {"tenants"}
    /\ kafka_lib = FALSE
    /\ boto_lib = FALSE
    /\ environ \in [AUMOS_SERVICES_RUNNING : EnvValues,
                     AUMOS_USE_TESTCONTAINERS : EnvValues]
    /\ items \in Collections
    /\ skip_marks = <<>>

CollectNext == pytest_collection_modifyitems

CollectSpec == CollectInit /\ [][CollectNext]_vars

\* the hook has run
Modified == DOMAIN skip_marks = items /\ items # {}

Skipped(it) == skip_marks[it] # {}

(* =========================== properties ================================ *)
Reads == {"select", "select_all"}

\* the statement just issued ran without a tenant context (unset or empty)
NoContext(ctx) == ctx = NULL \/ ctx = ""

\* the row under key i as session s saw it before / after the last step
Before(s, i) == View(s)[i]
After(s, i)  == View(s)'[i]

\* C1 -- read isolation: a read issued under the context of tenant T1 never
\* returns a committed row owned by another tenant T2.
C1_ReadIsolation ==
    (last.op \in Reads /\ last.ctx \in Tenants) =>
        \A i \in last.ret :
            pending[last.sess][i] = Untouched =>
                table[i].tenant_id \notin (Tenants \ {last.ctx})

\* C2 -- write ownership: an INSERT under context T1 declaring tenant_id = T2,
\* T1 # T2, is rejected with a data-access error and stores nothing.
C2_WriteOwnership ==
    [][(last'.op = "insert" /\ last'.ctx \in Tenants
            /\ last'.arg \in Tenants /\ last'.arg # last'.ctx) =>
        /\ last'.err # "none"
        /\ pending' = pending
        /\ table' = table]_vars

\* C3 -- delete isolation: a DELETE by id under context T reports rowcount 1
\* and removes the row exactly when the row is owned by T; a row of another
\* tenant is left in place, with rowcount 0 and no error.
C3_DeleteIsolation ==
    [][\A s \in Sessions, i \in Ids :
        (last'.op = "delete" /\ last'.sess = s /\ last'.id = i
            /\ last'.ctx \in Tenants) =>
        LET row == Before(s, i)
        IN  /\ last'.rowcount = 1 <=> (row # NoRow /\ row.tenant_id = last'.ctx)
            /\ last'.rowcount = 1 => After(s, i) = NoRow
            /\ (row # NoRow /\ row.tenant_id # last'.ctx) =>
                   /\ last'.rowcount = 0
                   /\ last'.err = "none"
                   /\ After(s, i) = row]_vars

\* C4 -- fail-closed default: a read or delete issued with no tenant context
\* (never set, or set to the empty string) matches zero rows.
C4_FailClosed ==
    (last.op \in Reads \cup {"delete"} /\ NoContext(last.ctx)) =>
        /\ last.ret = {}
        /\ last.rowcount = 0

\* C5 -- exact visibility: a SELECT under context T returns exactly the
\* committed rows whose tenant_id equals T.
C5_ExactVisibility ==
    (last.op = "select_all" /\ last.ctx \in Tenants
        /\ pending[last.sess] = NoPending) =>
        last.ret = {i \in Ids : table[i] # NoRow /\ table[i].tenant_id = last.ctx}

\* C6 -- update isolation: an UPDATE under context T changes exactly the
\* targeted row when it is owned by T, and otherwise reports 0 rows and
\* changes nothing; every other row is left as it was.
C6_UpdateIsolation ==
    [][\A s \in Sessions, i \in Ids :
        (last'.op = "update" /\ last'.sess = s /\ last'.id = i
            /\ last'.ctx \in Tenants) =>
        LET row == Before(s, i)
        IN  /\ (row # NoRow /\ row.tenant_id = last'.ctx) =>
                   /\ last'.rowcount = 1
                   /\ After(s, i) = [row EXCEPT !.name = last'.arg]
            /\ (row = NoRow \/ row.tenant_id # last'.ctx) =>
                   /\ last'.rowcount = 0
                   /\ After(s, i) = row
            /\ \A j \in Ids \ {i} : After(s, j) = Before(s, j)]_vars

\* C7 -- no tenant migration: no UPDATE changes the tenant_id of a stored
\* row, and an UPDATE under context T that would give a row of T another
\* tenant_id is rejected.
C7_NoTenantMigration ==
    [][\A s \in Sessions, i \in Ids :
        (last'.op \in {"update", "update_tenant"} /\ last'.sess = s
            /\ last'.id = i) =>
        LET row == Before(s, i)
        IN  /\ \A j \in Ids :
                   (Before(s, j) # NoRow /\ After(s, j) # NoRow) =>
                       After(s, j).tenant_id = Before(s, j).tenant_id
            /\ (last'.op = "update_tenant" /\ row # NoRow
                    /\ row.tenant_id = last'.ctx /\ last'.arg # last'.ctx) =>
                   last'.err # "none"]_vars

\* C8 -- no context leak across pooled connections: a unit of work that
\* reuses a connection on which an earlier unit of work set a tenant context,
\* and sets none itself, has no tenant as its active context and reads zero
\* rows.
C8_NoContextLeak ==
    /\ \A s \in Sessions :
           (status[s] # "idle" /\ guc_local[conn[s]] = NoLocal) =>
               current_setting(conn[s]) \notin Tenants
    /\ (last.op \in Reads /\ guc_local[conn[last.sess]] = NoLocal
            /\ guc_session[conn[last.sess]] = "") =>
           last.ret = {}

\* C9 -- context read-back: right after set_tenant_context(t) the setting
\* reads back exactly t; while the transaction lasts and the context is not
\* set again the value does not change; and every evaluation of
\* current_setting('app.current_tenant') returns that value.
C9_ContextReadBack ==
    [][\A s \in Sessions :
        /\ (last'.op = "set_context" /\ last'.sess = s) =>
               current_setting(conn[s])' = last'.arg
        /\ (/\ status[s] # "idle" /\ status'[s] # "idle"
            /\ guc_local[conn[s]] # NoLocal
            /\ ~(last'.op = "set_context" /\ last'.sess = s)) =>
               current_setting(conn[s])' = current_setting(conn[s])
        /\ (last'.op = "read_context" /\ last'.sess = s) =>
               last'.arg = current_setting(conn[s])]_vars

\* a transaction set a tenant as its context, and a later statement of the
\* same transaction read it back
C9_Witness ==
    /\ last.op = "read_context"
    /\ guc_local[conn[last.sess]] \in Tenants
    /\ last.arg = guc_local[conn[last.sess]]

\* C10 -- no-context writes are denied: an INSERT issued with no tenant
\* context (unset or empty) stores nothing, whatever tenant_id it declares.
C10_NoContextInsertDenied ==
    [][(last'.op = "insert" /\ NoContext(last'.ctx)) =>
        /\ pending' = pending
        /\ table' = table]_vars

\* C11 -- set-up inserts without context persist: an INSERT on a free key by
\* a unit of work that never set a tenant context is stored with the
\* tenant_id it declares, COMMIT makes the transaction's rows the committed
\* rows, and a read by id under the context of the tenant that owns a stored
\* row returns it (count 1).
C11_SetupInsertPersists ==
    [][\A s \in Sessions, i \in Ids :
        /\ (last'.op = "insert" /\ last'.sess = s /\ last'.id = i
                /\ guc_local[conn[s]] = NoLocal /\ Before(s, i) = NoRow) =>
               /\ last'.err = "none"
               /\ After(s, i) # NoRow
               /\ After(s, i).tenant_id = last'.arg
        /\ (last'.op = "commit" /\ last'.sess = s /\ status[s] = "active") =>
               table'[i] = Before(s, i)
        /\ (last'.op = "select" /\ last'.sess = s /\ last'.id = i
                /\ last'.ctx \in Tenants /\ Before(s, i) # NoRow
                /\ Before(s, i).tenant_id = last'.ctx) =>
               last'.rowcount = 1]_vars

\* a committed row, written on a connection on which no transaction has set
\* a context before, is counted by a later unit of work under its tenant
C11_Witness ==
    /\ last.op = "select"
    /\ last.rowcount = 1
    /\ last.ctx \in Tenants
    /\ pending[last.sess] = NoPending
    /\ table[last.id].tenant_id = last.ctx
    /\ guc_session[conn[last.sess]] = NULL

\* C12 -- no bypass role: the role of every session has neither superuser
\* nor BYPASSRLS, so tenant_isolation is applied to its statements; a read
\* under a tenant context returns only rows of that tenant and an INSERT
\* under a tenant context stores only rows of that tenant.
C12_NoBypassRole ==
    /\ \A s \in Sessions :
           status[s] # "idle" =>
               /\ ~AppRole.rolsuper
               /\ ~AppRole.rolbypassrls
               /\ RowSecurityApplies(AppRole)
    /\ (last.op \in Reads /\ last.ctx \in Tenants) =>
           \A i \in last.ret : View(last.sess)[i].tenant_id = last.ctx
    /\ (last.op = "insert" /\ last.ctx \in Tenants /\ last.rowcount = 1) =>
           last.arg = last.ctx

SeedProgress ==
    \E sd \in Seeders :
        \/ CreateTableIfNotExists(sd)
        \/ CreateTableResume(sd)
        \/ UpsertTenant(sd)
        \/ SeedTenantsCommit(sd)
        \/ UpsertUser(sd)
        \/ SeedUsersCommit(sd)
        \/ \E requested \in BOOLEAN, broker \in BrokerStates :
               SeedKafkaTopics(sd, requested, broker)
        \/ \E requested \in BOOLEAN, store \in StoreStates :
               SeedMinioBuckets(sd, requested, store)
        \/ SeedAllReturn(sd)

OptionalSteps == {"seed_kafka_topics", "seed_minio_buckets"}

\* steps of seed_all that come after seed_tenants and seed_users
AfterDbSteps == OptionalSteps \cup {"return"}

TenantRows == DOMAIN tenants
UserRows   == DOMAIN test_users

\* C14 -- seed idempotence: with seed_all run several times in a row, once a
\* call has ended with seed_tenants and seed_users done, no later step of
\* any call changes tenants or test_users, no later call ends with a
\* database error, and the tables hold
\* exactly one row for each of the 3 tenant and 15 user fixture identifiers
\* (and no other row, when there was none before the first run).
C14_SeedIdempotence ==
    [][outcome.at \in AfterDbSteps =>
        /\ tenants' = tenants
        /\ test_users' = test_users
        /\ outcome'.raised # "IntegrityError"
        /\ Cardinality(TenantRows' \cap SeedTenantIds) = 3
        /\ Cardinality(UserRows' \cap SeedUserIds) = 15
        /\ foreign_tenant_id \notin TenantRows => Cardinality(TenantRows') = 3
        /\ foreign_user_id \notin UserRows => Cardinality(UserRows') = 15]_vars

\* seed_all has been called twice and the second call returned, with all
\* fixture rows stored
C14_Witness ==
    /\ nruns = 2
    /\ \A sd \in Seeders : spc[sd] = "idle"
    /\ outcome.at = "return"
    /\ SeedTenantIds \subseteq TenantRows
    /\ SeedUserIds \subseteq UserRows

\* C15 -- seed counts: every seed_all call that returns, the first and every
\* later one, returns 'tenants' = 3 and 'users' = 15; and when tenants holds
\* no row under a non-seed identifier, the returned tenant count is the
\* number of rows in tenants.
C15_SeedCounts ==
    outcome.raised = "none" =>
        /\ {"tenants", "users"} \subseteq DOMAIN outcome.results
        /\ outcome.results["tenants"] = 3
        /\ outcome.results["users"] = 15
        /\ foreign_tenant_id \notin TenantRows =>
               Cardinality(TenantRows) = outcome.results["tenants"]

\* a second seed_all call returned its counts, on a tenants table without
\* non-seed rows
C15_Witness ==
    /\ nruns = 2
    /\ \A sd \in Seeders : spc[sd] = "idle"
    /\ outcome.raised = "none"
    /\ outcome.results["tenants"] = 3
    /\ foreign_tenant_id \notin TenantRows
    /\ Cardinality(TenantRows) = 3

\* C16 -- optional seeding degrades to a no-op: with the Kafka (object
\* storage) client library missing, the Kafka (bucket) step of seed_all never
\* raises and, when requested, stores a count of 0 and creates nothing; by
\* the time an optional step is reached all fixture tenants and users are
\* committed and counted in results; and the call returns what it counted.
C16_OptionalNoOp ==
    [][\A sd \in Seeders :
        /\ (spc[sd] = "seed_kafka_topics" /\ spc'[sd] # spc[sd] /\ ~kafka_lib) =>
               /\ spc'[sd] = "seed_minio_buckets"
               /\ topics' = topics
               /\ \/ results'[sd] = results[sd]
                  \/ results'[sd] = results[sd] @@ ("kafka_topics" :> 0)
        /\ (spc[sd] = "seed_minio_buckets" /\ spc'[sd] # spc[sd] /\ ~boto_lib) =>
               /\ spc'[sd] = "return"
               /\ buckets' = buckets
               /\ \/ results'[sd] = results[sd]
                  \/ results'[sd] = results[sd] @@ ("minio_buckets" :> 0)
        /\ spc'[sd] \in AfterDbSteps =>
               /\ SeedTenantIds \subseteq TenantRows'
               /\ SeedUserIds \subseteq UserRows'
               /\ results'[sd]["tenants"] = 3
               /\ results'[sd]["users"] = 15
        /\ (spc[sd] = "return" /\ spc'[sd] # spc[sd]) =>
               /\ outcome'.raised = "none"
               /\ outcome'.results = results[sd]]_vars

\* with both client libraries missing, a call that asked for topics and
\* buckets returned zero for both, next to the tenant and user counts
C16_Witness ==
    /\ ~kafka_lib
    /\ ~boto_lib
    /\ outcome.raised = "none"
    /\ {"kafka_topics", "minio_buckets"} \subseteq DOMAIN outcome.results
    /\ outcome.results["kafka_topics"] = 0
    /\ outcome.results["minio_buckets"] = 0
    /\ outcome.results["users"] = 15

\* C17 -- optional-dependency failures are never fatal: no seed_all call
\* ends by raising out of the Kafka or the bucket step.
C17_OptionalNeverFatal ==
    ~(outcome.raised \notin {"none", "no call ended"} /\ outcome.at \in OptionalSteps)

\* C18 -- seed mapping restored: once seed_users has completed in a call,
\* the row stored under each of the 15 fixture identifiers has the fixture's
\* tenant_id, username, email and privilege_level.
C18_SeedMappingRestored ==
    (\E sd \in Seeders : spc[sd] \in AfterDbSteps) =>
        \A k \in DOMAIN SEED_USERS :
            LET u == SEED_USERS[k] IN
            /\ u.id \in UserRows
            /\ test_users[u.id] =
                   [tenant_id |-> u.tenant_id, username |-> u.username,
                    email |-> u.email, privilege_level |-> u.privilege_level]

\* C19 -- seeded-user invariants: in every state reached by seed runs from
\* the harness's database, each row of test_users has privilege_level in
\* 1..5 and no two rows share an email (ids are the keys); and once
\* seed_users has completed, each of the 3 seeded tenants owns exactly 5
\* seeded users, one per privilege level 1..5.
C19_SeededUserInvariants ==
    /\ \A k \in UserRows : test_users[k].privilege_level \in 1..5
    /\ \A k1, k2 \in UserRows :
           k1 # k2 => test_users[k1].email # test_users[k2].email
    /\ ((\E sd \in Seeders : spc[sd] \in AfterDbSteps) \/ outcome.at \in AfterDbSteps) =>
           \A t \in SeedTenantIds :
               /\ Cardinality({k \in SeedUserIds \cap UserRows :
                                   test_users[k].tenant_id = t}) = 5
               /\ \A lvl \in 1..5 :
                      Cardinality({k \in SeedUserIds \cap UserRows :
                                      /\ test_users[k].tenant_id = t
                                      /\ test_users[k].privilege_level = lvl}) = 1

\* seed_users has run twice on the harness's database and all 15 rows are
\* stored
C19_Witness ==
    /\ nruns = 2
    /\ \E sd \in Seeders : spc[sd] = "seed_kafka_topics"
    /\ Cardinality(UserRows) = 15

(* ----------------------- concurrent units of work ----------------------- *)
\* the session's context, when it holds a connection
ContextOf(s) == IF conn[s] = 0 THEN NULL ELSE current_setting(conn[s])

C21_PolicyPersistence ==
    /\ relrowsecurity
    /\ relforcerowsecurity
    /\ \E p \in pg_policies :
           /\ p.policyname = "tenant_isolation"
           /\ p.has_using
           /\ p.has_with_check

\* a unit of work began on a connection that an earlier transaction had
\* used and given back, after a row was committed
C21_Witness ==
    /\ last.op = "begin"
    /\ guc_session[conn[last.sess]] = ""
    /\ \E i \in Ids : table[i] # NoRow
    /\ relforcerowsecurity
    /\ pg_policies # {}

\* C22 -- statement timeout is an error, not a hang: a pg_sleep that would
\* run longer than the statement_timeout in effect on its session ends with
\* a DBAPIError after less than its full duration, and leaves the unit of
\* work in a failed transaction that it can still end.
C22_TimeoutIsError ==
    (/\ last.op = "pg_sleep"
     /\ timeout_ms(statement_timeout(conn[last.sess])) > 0
     /\ last.arg * 1000 > timeout_ms(statement_timeout(conn[last.sess]))) =>
        /\ last.err = "DBAPIError"
        /\ elapsed < last.arg * 1000
        /\ elapsed = timeout_ms(statement_timeout(conn[last.sess]))
        /\ status[last.sess] = "aborted"

\* pg_sleep(1) under SET statement_timeout = '50ms' was cancelled after 50 ms
C22_Witness ==
    /\ last.op = "pg_sleep"
    /\ last.arg = 1
    /\ last.err = "DBAPIError"
    /\ elapsed = 50
    /\ stmt_timeout[conn[last.sess]].txn = "50ms"

\* C23 -- bounded connection acquisition: a unit of work waiting for a
\* connection eventually holds one or has been given the pool's timeout
\* error, whatever the holders of the connections do.
C23_BoundedAcquisition ==
    \A s \in Sessions :
        (status[s] = "waiting") ~>
            \/ status[s] = "active"
            \/ (last.op = "acquire" /\ last.sess = s /\ last.err = "TimeoutError")

\* a unit of work asked for a connection while all were checked out, and
\* its wait ended with the timeout error
C23_Witness ==
    /\ last.op = "acquire"
    /\ last.err = "TimeoutError"
    /\ status[last.sess] = "idle"
    /\ FreeConns = {}

\* C24 -- rollback undoes writes: a ROLLBACK leaves the committed rows as
\* they were and discards the transaction's writes, so every read after it,
\* under any context, sees the rows of before the transaction.
C24_RollbackUndoesWrites ==
    [][\A s \in Sessions :
        (last'.op = "rollback" /\ last'.sess = s) =>
            /\ table' = table
            /\ pending'[s] = NoPending
            /\ \A i \in Ids : After(s, i) = table[i]]_vars

\* a transaction that had inserted a row on a free key was rolled back and
\* the key is still free
C24_Witness ==
    /\ last.op = "rollback"
    /\ last.ret # {}
    /\ \A i \in last.ret : table[i] = NoRow

\* C25 -- context setting never fails: set_tenant_context(t) raises nothing
\* for any string t, and a read or delete under the empty string or under an
\* identifier no tenant has matches no row owned by a known tenant.
C25_ContextNeverFails ==
    [][\A s \in Sessions :
        /\ last'.op = "set_context" => last'.err = "none"
        /\ (last'.op \in Reads /\ last'.sess = s
                /\ last'.ctx \in ContextStrings \ Tenants) =>
               \A i \in last'.ret : Before(s, i).tenant_id \notin Tenants
        /\ (last'.op = "delete" /\ last'.sess = s
                /\ last'.ctx \in ContextStrings \ Tenants
                /\ Before(s, last'.id).tenant_id \in Tenants) =>
               /\ last'.rowcount = 0
               /\ After(s, last'.id) = Before(s, last'.id)]_vars

\* C30 -- session settings do not leak through the pool: when a unit of
\* work that issued SET statement_timeout ends without a successful COMMIT,
\* its connection goes back with the statement_timeout it had before the
\* unit of work, and a connection in the pool carries no SET in progress; so
\* the next unit of work on it runs with the default unless an earlier
\* transaction committed another value.
C30_NoSettingLeak ==
    [][\A s \in Sessions :
        /\ (/\ status[s] \in {"active", "aborted"} /\ status'[s] = "idle"
            /\ ~(last'.op = "commit" /\ status[s] = "active")) =>
               /\ stmt_timeout'[conn[s]].session = stmt_timeout[conn[s]].session
               /\ stmt_timeout'[conn[s]].txn = NoSet
        /\ (status[s] = "waiting" /\ status'[s] = "active") =>
               /\ stmt_timeout'[conn'[s]].txn = NoSet
               /\ stmt_timeout'[conn'[s]].session = stmt_timeout[conn'[s]].session]_vars

\* after a unit of work whose pg_sleep was cancelled under its own SET
\* statement_timeout = '50ms', the next unit of work began on the connection
\* and runs with the default
C30_Witness ==
    /\ last.op = "begin"
    /\ elapsed = 50
    /\ nstmt >= 2
    /\ statement_timeout(conn[last.sess]) = DefaultTimeout

(* ------------------- concurrent and optional seeding -------------------- *)
\* C28 -- concurrent seeding is safe: with seed_all calls overlapping in any
\* way on the harness's database, no call ends with an error in seed_tenants
\* or seed_users, some running call can always take a step (no deadlock),
\* and once the calls have ended with a return the tables hold exactly the
\* 3 fixture tenants and the 15 fixture users.
C28_ConcurrentSeedingSafe ==
    /\ outcome.at \notin {"seed_tenants", "seed_users"}
    /\ (\E sd \in Seeders : spc[sd] # "idle") => ENABLED SeedProgress
    /\ ((\A sd \in Seeders : spc[sd] = "idle") /\ outcome.at = "return") =>
           /\ TenantRows = SeedTenantIds
           /\ UserRows = SeedUserIds

\* C29 -- optional resource seeding is idempotent and counts only new
\* resources: the count a Kafka (bucket) step stores is the number of topics
\* (buckets) that step created, at most 7 (3), and 0 with nothing created
\* when all of them exist already; the Kafka step never raises, and the
\* bucket step raises for no reason other than a store that cannot be
\* reached.
C29_OptionalSeedingCounts ==
    [][\A sd \in Seeders :
        /\ (spc[sd] = "seed_kafka_topics" /\ spc'[sd] # spc[sd]) =>
               /\ spc'[sd] = "seed_minio_buckets"
               /\ "kafka_topics" \in DOMAIN results'[sd] =>
                      /\ results'[sd]["kafka_topics"] = Cardinality(topics' \ topics)
                      /\ results'[sd]["kafka_topics"] <= 7
                      /\ SEED_KAFKA_TOPICS \subseteq topics =>
                             /\ results'[sd]["kafka_topics"] = 0
                             /\ topics' = topics
        /\ (spc[sd] = "seed_minio_buckets" /\ spc'[sd] = "return"
                /\ "minio_buckets" \in DOMAIN results'[sd]) =>
                   /\ results'[sd]["minio_buckets"] = Cardinality(buckets' \ buckets)
                   /\ results'[sd]["minio_buckets"] <= 3
                   /\ BucketNames \subseteq buckets =>
                          /\ results'[sd]["minio_buckets"] = 0
                          /\ buckets' = buckets
        /\ (spc[sd] = "seed_minio_buckets" /\ spc'[sd] = "idle") =>
               outcome'.raised = "EndpointConnectionError"]_vars

\* a call that found all 7 topics and all 3 buckets in place, with both
\* client libraries present, returned 0 for both
C29_Witness ==
    /\ kafka_lib
    /\ boto_lib
    /\ topics = SEED_KAFKA_TOPICS
    /\ buckets = BucketNames
    /\ nruns = 2
    /\ outcome.raised = "none"
    /\ {"kafka_topics", "minio_buckets"} \subseteq DOMAIN outcome.results
    /\ outcome.results["kafka_topics"] = 0
    /\ outcome.results["minio_buckets"] = 0

(* --------------------------- test collection ---------------------------- *)
\* the classes whose tests need no infrastructure
UnitClasses == {"TestRLSEnforcementUnit", "TestEventPropagationUnit"}

\* spellings of the value that enables a variable
TrueSpellings == {"true", "True", "TRUE"}

\* C26 -- unit-level tests always run: whatever the two environment
\* variables hold, the hook adds no skip marker to the tests of
\* TestRLSEnforcementUnit and TestEventPropagationUnit.
C26_UnitTestsAlwaysRun ==
    Modified =>
        \A it \in items : it.cls \in UnitClasses => ~Skipped(it)

\* C27 -- skip rule: the hook marks an item skipped exactly when it carries
\* one of smoke/phase0/phase1/phase2 and neither variable is 'true' (in any
\* letter case), or it carries one of integration/chaos/performance and
\* AUMOS_USE_TESTCONTAINERS is not 'true'; an item with none of these
\* markers is not skipped; an item marked integration is skipped whenever
\* AUMOS_USE_TESTCONTAINERS is not 'true', services running or not.
C27_SkipRule ==
    Modified =>
        LET services   == environ.AUMOS_SERVICES_RUNNING \in TrueSpellings
            containers == environ.AUMOS_USE_TESTCONTAINERS \in TrueSpellings
        IN  \A it \in items :
                /\ Skipped(it) <=>
                       \/ (it.markers \cap ServiceMarks # {}
                              /\ ~services /\ ~containers)
                       \/ (it.markers \cap ContainerMarks # {} /\ ~containers)
                /\ it.markers \cap (ServiceMarks \cup ContainerMarks) = {} =>
                       ~Skipped(it)
                /\ ("integration" \in it.markers /\ ~containers) => Skipped(it)

\* the whole suite was collected with services running (spelled TRUE) and
\* testcontainers not enabled: the integration items are skipped, the
\* phase0-only and the contract items are not
C27_Witness ==
    /\ Modified
    /\ items = TestClasses
    /\ environ.AUMOS_SERVICES_RUNNING = "TRUE"
    /\ environ.AUMOS_USE_TESTCONTAINERS = Unset
    /\ \E it \in items : "integration" \in it.markers /\ Skipped(it)
    /\ \E it \in items : it.markers = {"phase0"} /\ ~Skipped(it)
    /\ \E it \in items : "contract" \in it.markers /\ ~Skipped(it)

====
